---- MODULE Spec2Model ----
(***************************************************************************)
(* OneLink: short-link redirection service.                                *)
(*                                                                         *)
(* State machine of the project store (projects table with its unique      *)
(* short_code column), the project handlers at the granularity of their    *)
(* record-store round trips, the redirect handler and the platform         *)
(* resolver (detect_platform, get_device_info).                            *)
(***************************************************************************)
EXTENDS FiniteSets, Integers, Sequences, TLC

VARIABLES
    projects,   \* rows of the projects table
    clicks,     \* rows of the clicks table
    users,      \* rows of the users table
    req,        \* the request each worker slot is serving, and how far it is
    response    \* the response sent by the latest handler run that finished

vars == <<projects, clicks, users, req, response>>

(***************************************************************************)
(* Bounds of the model.                                                    *)
(***************************************************************************)
NumRequests == 2      \* worker slots: requests served at the same time
MaxId == 3            \* largest primary key handed out
RaceGenerate == 2     \* cap on generate_short_code calls of a racing request
MaxGenerate == 11     \* cap on generate_short_code calls of a lone request

Requests == 1..NumRequests

(***************************************************************************)
(* Input domains.                                                          *)
(***************************************************************************)
None == "None"                         \* Python None / SQL NULL

Users == {1, 2}                        \* ids of authenticated active users

\* the users table with both of them registered and active
RegisteredUsers ==
    {[id |-> 1, email |-> "ana@example.com", is_active |-> TRUE],
     [id |-> 2, email |-> "ben@example.com", is_active |-> TRUE]}
Codes == {"xK9mP2", "aBc234"}          \* values generate_short_code may return

AppNames == {"Mi Super App"}
IosUrls == {"https://apps.apple.com/app/id123456789"}
AndroidUrls == {"https://play.google.com/store/apps/details?id=com.example.app"}
FallbackUrls == {None, "", "https://example.com"}

\* request bodies accepted by the ProjectCreate schema
ProjectCreate ==
    [app_name: AppNames, ios_url: IosUrls, android_url: AndroidUrls,
     fallback_url: FallbackUrls]

\* Python truthiness of an Optional[str]
Truthy(v) == v # None /\ v # ""

(***************************************************************************)
(* Record store: the projects table.                                       *)
(***************************************************************************)
ByShortCodeOrAny(rows, short_code) ==
    IF \E p \in rows : p.short_code = short_code
    THEN {p \in rows : p.short_code = short_code}
    ELSE rows

\* db.query(Project).filter(Project.short_code == short_code)
ByShortCode(rows, short_code) == {p \in rows : p.short_code = short_code}

ById(rows, project_id, user_id) == {p \in rows : p.id = project_id}

\* db.query(Project).filter(Project.id == project_id, Project.user_id == user_id)
ByIdAndOwner(rows, project_id, user_id) ==
    {p \in rows : p.id = project_id /\ p.user_id = user_id}

\* the row with a primary key: the SELECT of db.refresh and the WHERE of
\* the UPDATE and DELETE statements a flush emits
ByPrimaryKey(rows, id) == {p \in rows : p.id = id}

\* INTEGER PRIMARY KEY of a new row: one more than the largest in the table
NextId(rows) ==
    IF rows = {} THEN 1
    ELSE (CHOOSE i \in {p.id : p \in rows} : \A q \in rows : q.id <= i) + 1

UniqueShortCodeOff(rows, row) == FALSE

\* short_code = Column(String, unique=True): the constraint a commit enforces
UniqueShortCodeViolated(rows, row) ==
    \E p \in rows : p.id # row.id /\ p.short_code = row.short_code

NotNullAppNameOnly(row) == row.app_name = None

\* nullable=False columns of Project
NotNullViolated(row) ==
    \/ row.app_name = None
    \/ row.ios_url = None
    \/ row.android_url = None
    \/ row.short_code = None

IntegrityErrorNotNullOnly(rows, row) == NotNullViolated(row)

\* db.commit() raises IntegrityError for this row against the other rows
IntegrityError(rows, row) ==
    UniqueShortCodeViolated(rows, row) \/ NotNullViolated(row)

(***************************************************************************)
(* Short URLs (utils/short_url.py).                                        *)
(***************************************************************************)
\* BASE_URL = os.getenv("BASE_URL", "http://localhost:8000")
BASE_URL == "http://localhost:8000"

\* str.rstrip('/'): every trailing slash is removed
RECURSIVE RStripSlash(_)
RStripSlash(s) ==
    IF Len(s) > 0 /\ SubSeq(s, Len(s), Len(s)) = "/"
    THEN RStripSlash(SubSeq(s, 1, Len(s) - 1))
    ELSE s

generate_short_url_unstripped(base_url, short_code) ==
    base_url \o "/" \o short_code

generate_short_url(base_url, short_code) ==
    RStripSlash(base_url) \o "/" \o short_code

\* str.startswith
StartsWith(s, prefix) ==
    Len(s) >= Len(prefix) /\ SubSeq(s, 1, Len(prefix)) = prefix

validate_url(url) ==
    IF ~Truthy(url) THEN FALSE
    ELSE \E prefix \in {"http://", "https://"} : StartsWith(url, prefix)

(***************************************************************************)
(* Request validation (schemas.py): the Field constraints a body has to    *)
(* meet before its handler runs; a body that misses one is answered 422.   *)
(***************************************************************************)
\* ProjectCreate: app_name 1..100 characters, ios_url and android_url at
\* least 10, fallback_url any string or null
ValidCreate(body) ==
    /\ body.app_name # None /\ Len(body.app_name) \in 1..100
    /\ body.ios_url # None /\ Len(body.ios_url) >= 10
    /\ body.android_url # None /\ Len(body.android_url) >= 10

(***************************************************************************)
(* create_project, one action per record-store round trip.                 *)
(***************************************************************************)
Idle == [pc |-> "idle"]

\* a handler starts for a request whose dependency has returned; on a free
\* slot the request arrives with its current_user resolved
Ready(r) == req[r].pc \in {"idle", "authenticated"}

\* requests that have not inserted yet
InFlight == {r \in Requests : req[r].pc \in {"check", "insert"}}

\* line 51: the request is accepted and the first code is generated
CreateBegin(r, user, body) ==
    /\ ValidCreate(body)
    /\ Ready(r)
    /\ NextId(projects) + Cardinality(InFlight) <= MaxId
    /\ \E code \in Codes :
         req' = [req EXCEPT ![r] =
                    [pc |-> "check", user_id |-> user, body |-> body,
                     short_code |-> code, generated |-> 1, collisions |-> 0]]
    /\ UNCHANGED <<projects, clicks, users, response>>

\* the body fails validation: 422, the handler does not run
CreateInvalid(body) ==
    /\ ~ValidCreate(body)
    /\ response' = [op |-> "create_project", status |-> 422]
    /\ UNCHANGED <<projects, clicks, users, req>>

LoopBodyTwice(r, code) ==
    [req EXCEPT ![r].short_code = code,
                ![r].generated = @ + 2,
                ![r].collisions = @ + 1]

\* line 55: the loop body, short_code = generate_short_code()
LoopBody(r, code) ==
    [req EXCEPT ![r].short_code = code,
                ![r].generated = @ + 1,
                ![r].collisions = @ + 1]

\* lines 54-55: one evaluation of the while condition, and the loop body
\* when the code is taken; the loop has no attempt bound (cap bounds the
\* model only)
CreateCheck(r, cap) ==
    /\ req[r].pc = "check"
    /\ IF ByShortCode(projects, req[r].short_code) # {}
       THEN /\ req[r].generated < cap
            /\ \E code \in Codes : req' = LoopBody(r, code)
       ELSE req' = [req EXCEPT ![r].pc = "insert"]
    /\ UNCHANGED <<projects, clicks, users, response>>

NewProjectFixedCode(rows, r) ==
    [id |-> NextId(rows),
     user_id |-> req[r].user_id,
     app_name |-> req[r].body.app_name,
     ios_url |-> req[r].body.ios_url,
     android_url |-> req[r].body.android_url,
     fallback_url |-> req[r].body.fallback_url,
     short_code |-> "000000"]

\* lines 58-65: the row built from the request
NewProject(rows, r) ==
    [id |-> NextId(rows),
     user_id |-> req[r].user_id,
     app_name |-> req[r].body.app_name,
     ios_url |-> req[r].body.ios_url,
     android_url |-> req[r].body.android_url,
     fallback_url |-> req[r].body.fallback_url,
     short_code |-> req[r].short_code]

\* lines 67-68: insert and commit; an IntegrityError is not caught by the
\* handler and reaches the client as a 500
CreateInsert(r) ==
    /\ req[r].pc = "insert"
    /\ LET row == NewProject(projects, r) IN
       IF IntegrityError(projects, row)
       THEN /\ response' = [op |-> "create_project", status |-> 500,
                            error |-> "IntegrityError"]
            /\ req' = [req EXCEPT ![r] = Idle]
            /\ UNCHANGED projects
       ELSE /\ projects' = projects \cup {row}
            /\ req' = [req EXCEPT ![r] =
                          [pc |-> "create_refresh", id |-> row.id,
                           short_code |-> req[r].short_code,
                           generated |-> req[r].generated,
                           collisions |-> req[r].collisions]]
            /\ UNCHANGED response
    /\ UNCHANGED <<clicks, users>>

\* lines 69-82: db.refresh reads the row back by its primary key (an
\* InvalidRequestError, answered 500, when it is gone) and the handler
\* answers with what it read and the short URL of the code it generated.
\* The response records, besides its body, how many codes the request
\* generated and how many of them it found taken.
CreateRefresh(r) ==
    /\ req[r].pc = "create_refresh"
    /\ LET found == ByPrimaryKey(projects, req[r].id) IN
       IF found = {}
       THEN response' = [op |-> "create_project", status |-> 500,
                         error |-> "InvalidRequestError"]
       ELSE response' = [op |-> "create_project", status |-> 201,
                         project |-> CHOOSE p \in found : TRUE,
                         short_url |->
                             generate_short_url(BASE_URL, req[r].short_code),
                         total_clicks |-> 0,
                         generated |-> req[r].generated,
                         collisions |-> req[r].collisions]
    /\ req' = [req EXCEPT ![r] = Idle]
    /\ UNCHANGED <<projects, clicks, users>>

(***************************************************************************)
(* update_project and delete_project.                                      *)
(***************************************************************************)
UpdateFields == {"app_name", "ios_url", "android_url", "fallback_url"}

\* values a client may send for a field of the ProjectUpdate schema (every
\* field is Optional, so an explicit null passes validation)
UpdateValues(field) ==
    CASE field = "app_name" -> AppNames \cup {None}
      [] field = "ios_url" -> IosUrls \cup {None}
      [] field = "android_url" -> AndroidUrls \cup {None}
      [] field = "fallback_url" -> FallbackUrls

\* project_update.dict(exclude_unset=True): the fields the client sent
ProjectUpdate ==
    UNION {[fields -> UNION {UpdateValues(f) : f \in UpdateFields}] :
           fields \in SUBSET UpdateFields}

\* ProjectUpdate: the constraints of ProjectCreate on the fields sent, and
\* null allowed for each
ValidUpdate(update_data) ==
    /\ DOMAIN update_data \subseteq UpdateFields
    /\ "app_name" \in DOMAIN update_data =>
          \/ update_data.app_name = None
          \/ Len(update_data.app_name) \in 1..100
    /\ "ios_url" \in DOMAIN update_data =>
          \/ update_data.ios_url = None
          \/ Len(update_data.ios_url) >= 10
    /\ "android_url" \in DOMAIN update_data =>
          \/ update_data.android_url = None
          \/ Len(update_data.android_url) >= 10

ApplyUpdateResetFallback(project, update_data) ==
    [f \in DOMAIN project |->
        IF f \in DOMAIN update_data THEN update_data[f]
        ELSE IF f = "fallback_url" THEN None
        ELSE project[f]]

\* lines 191-192: setattr(project, field, value) for every field sent
ApplyUpdate(project, update_data) ==
    [f \in DOMAIN project |->
        IF f \in DOMAIN update_data THEN update_data[f] ELSE project[f]]

CountAllClicks(rows, project_id) == Cardinality(rows)

\* db.query(Click).filter(Click.project_id == project.id).count()
CountClicks(rows, project_id) ==
    Cardinality({c \in rows : c.project_id = project_id})

\* the columns of the UPDATE a flush emits: the attributes set to a value
\* other than the one loaded
Modified(project, update_data) ==
    [f \in {g \in DOMAIN update_data : update_data[g] # project[g]} |->
        update_data[f]]

\* lines 162-187: validation and the SELECT of the caller's row
update_project(r, user, project_id, update_data) ==
    /\ ValidUpdate(update_data)
    /\ Ready(r)
    /\ LET found == ByIdAndOwner(projects, project_id, user) IN
       IF found = {}
       THEN /\ response' = [op |-> "update_project", user_id |-> user,
                            project_id |-> project_id, status |-> 404]
            /\ req' = [req EXCEPT ![r] = Idle]
       ELSE /\ req' = [req EXCEPT ![r] =
                          [pc |-> "update_commit", user_id |-> user,
                           project_id |-> project_id,
                           project |-> CHOOSE p \in found : TRUE,
                           update_data |-> update_data]]
            /\ UNCHANGED response
    /\ UNCHANGED <<projects, clicks, users>>

\* lines 189-194: the setattr loop and db.commit().  The UPDATE is keyed by
\* the primary key; a StaleDataError when it matches no row and an
\* IntegrityError are answered 500.  Nothing is sent when no attribute
\* changed.
UpdateCommit(r) ==
    /\ req[r].pc = "update_commit"
    /\ LET modified == Modified(req[r].project, req[r].update_data)
           found == ByPrimaryKey(projects, req[r].project.id)
           failed == [op |-> "update_project", user_id |-> req[r].user_id,
                      project_id |-> req[r].project_id, status |-> 500]
           StaleDataError == [error |-> "StaleDataError"]
           Integrity == [error |-> "IntegrityError"]
       IN  IF DOMAIN modified = {}
           THEN /\ req' = [req EXCEPT ![r].pc = "update_refresh"]
                /\ UNCHANGED <<projects, response>>
           ELSE IF found = {}
           THEN /\ response' = failed @@ StaleDataError
                /\ req' = [req EXCEPT ![r] = Idle]
                /\ UNCHANGED projects
           ELSE LET row == CHOOSE p \in found : TRUE
                    updated == ApplyUpdate(row, modified)
                IN  IF IntegrityError(projects, updated)
                    THEN /\ response' = failed @@ Integrity
                         /\ req' = [req EXCEPT ![r] = Idle]
                         /\ UNCHANGED projects
                    ELSE /\ projects' = (projects \ {row}) \cup {updated}
                         /\ req' = [req EXCEPT ![r].pc = "update_refresh"]
                         /\ UNCHANGED response
    /\ UNCHANGED <<clicks, users>>

\* line 195: db.refresh reads the row back by its primary key
UpdateRefresh(r) ==
    /\ req[r].pc = "update_refresh"
    /\ LET found == ByPrimaryKey(projects, req[r].project.id) IN
       IF found = {}
       THEN /\ response' = [op |-> "update_project",
                            user_id |-> req[r].user_id,
                            project_id |-> req[r].project_id, status |-> 500,
                            error |-> "InvalidRequestError"]
            /\ req' = [req EXCEPT ![r] = Idle]
       ELSE /\ req' = [req EXCEPT ![r].pc = "update_count",
                                  ![r].project = CHOOSE p \in found : TRUE]
            /\ UNCHANGED response
    /\ UNCHANGED <<projects, clicks, users>>

\* lines 152-156, 202-206: the response body of one row, with the COUNT of
\* its clicks
ProjectResponse(project) ==
    [project |-> project,
     short_url |-> generate_short_url(BASE_URL, project.short_code),
     total_clicks |-> CountClicks(clicks, project.id)]

\* lines 198-206: the COUNT of the clicks and the answer
UpdateCount(r) ==
    /\ req[r].pc = "update_count"
    /\ response' = [op |-> "update_project", user_id |-> req[r].user_id,
                    project_id |-> req[r].project_id, status |-> 200,
                    project |-> req[r].project,
                    short_url |-> ProjectResponse(req[r].project).short_url,
                    total_clicks |->
                        ProjectResponse(req[r].project).total_clicks]
    /\ req' = [req EXCEPT ![r] = Idle]
    /\ UNCHANGED <<projects, clicks, users>>

\* the body fails validation: 422, the handler does not run
UpdateInvalid(update_data) ==
    /\ ~ValidUpdate(update_data)
    /\ response' = [op |-> "update_project", status |-> 422]
    /\ UNCHANGED <<projects, clicks, users, req>>

\* lines 224-233: the SELECT of the caller's row
delete_project(r, user, project_id) ==
    /\ Ready(r)
    /\ LET found == ByIdAndOwner(projects, project_id, user) IN
       IF found = {}
       THEN /\ response' = [op |-> "delete_project", user_id |-> user,
                            project_id |-> project_id, status |-> 404]
            /\ req' = [req EXCEPT ![r] = Idle]
       ELSE /\ req' = [req EXCEPT ![r] =
                          [pc |-> "delete_cascade", user_id |-> user,
                           project_id |-> project_id,
                           project |-> CHOOSE p \in found : TRUE]]
            /\ UNCHANGED response
    /\ UNCHANGED <<projects, clicks, users>>

LoadClicksNone(rows, project_id) == {}

\* clicks = relationship(..., cascade="all, delete-orphan"): the clicks of
\* the project, loaded to be deleted with it
LoadClicks(rows, project_id) ==
    {c.id : c \in {d \in rows : d.project_id = project_id}}

\* line 235: db.delete(project) loads the clicks the delete cascades to
DeleteCascade(r) ==
    /\ req[r].pc = "delete_cascade"
    /\ req' = [req EXCEPT ![r] =
                  [pc |-> "delete_commit", user_id |-> req[r].user_id,
                   project_id |-> req[r].project_id,
                   project |-> req[r].project,
                   clicks |-> LoadClicks(clicks, req[r].project.id)]]
    /\ UNCHANGED <<projects, clicks, users, response>>

\* line 236: db.commit() deletes the loaded clicks and the project, each by
\* its primary key; a DELETE that matches no row is not an error
DeleteCommit(r) ==
    /\ req[r].pc = "delete_commit"
    /\ clicks' = {c \in clicks : c.id \notin req[r].clicks}
    /\ projects' = projects \ ByPrimaryKey(projects, req[r].project.id)
    /\ response' = [op |-> "delete_project", user_id |-> req[r].user_id,
                    project_id |-> req[r].project_id, status |-> 204]
    /\ req' = [req EXCEPT ![r] = Idle]
    /\ UNCHANGED users

(***************************************************************************)
(* get_project and list_projects.                                          *)
(***************************************************************************)
\* lines 136-145: the SELECT of the caller's row
get_project(r, user, project_id) ==
    /\ Ready(r)
    /\ LET found == ByIdAndOwner(projects, project_id, user) IN
       IF found = {}
       THEN /\ response' = [op |-> "get_project", user_id |-> user,
                            project_id |-> project_id, status |-> 404]
            /\ req' = [req EXCEPT ![r] = Idle]
       ELSE /\ req' = [req EXCEPT ![r] =
                          [pc |-> "get_count", user_id |-> user,
                           project_id |-> project_id,
                           project |-> CHOOSE p \in found : TRUE]]
            /\ UNCHANGED response
    /\ UNCHANGED <<projects, clicks, users>>

\* lines 148-156: the COUNT of the clicks and the answer
GetCount(r) ==
    /\ req[r].pc = "get_count"
    /\ response' = [op |-> "get_project", user_id |-> req[r].user_id,
                    project_id |-> req[r].project_id, status |-> 200,
                    project |-> req[r].project,
                    short_url |-> ProjectResponse(req[r].project).short_url,
                    total_clicks |->
                        ProjectResponse(req[r].project).total_clicks]
    /\ req' = [req EXCEPT ![r] = Idle]
    /\ UNCHANGED <<projects, clicks, users>>

\* Project.user_id == current_user.id
OwnedBy(rows, user) == {p \in rows : p.user_id = user}

\* the rows of a set in primary-key order
RECURSIVE InIdOrder(_)
InIdOrder(rows) ==
    IF rows = {} THEN <<>>
    ELSE LET first == CHOOSE p \in rows : \A q \in rows : p.id <= q.id
         IN  <<first>> \o InIdOrder(rows \ {first})

\* .offset(skip).limit(limit).all(): skip and limit are any integers; a
\* negative OFFSET counts as 0 and a negative LIMIT as no limit
Page(seq, skip, limit) ==
    LET offset == IF skip < 0 THEN 0 ELSE skip
        last == IF limit < 0 \/ offset + limit > Len(seq)
                THEN Len(seq) ELSE offset + limit
    IN  IF offset >= Len(seq) THEN <<>> ELSE SubSeq(seq, offset + 1, last)

\* lines 102-104: the SELECT of a page of the caller's rows; an empty page
\* is answered at once
list_projects(r, user, skip, limit) ==
    /\ Ready(r)
    /\ LET page == Page(InIdOrder(OwnedBy(projects, user)), skip, limit) IN
       IF page = <<>>
       THEN /\ response' = [op |-> "list_projects", status |-> 200,
                            user_id |-> user, result |-> <<>>]
            /\ req' = [req EXCEPT ![r] = Idle]
       ELSE /\ req' = [req EXCEPT ![r] =
                          [pc |-> "list_count", user_id |-> user,
                           page |-> page, result |-> <<>>]]
            /\ UNCHANGED response
    /\ UNCHANGED <<projects, clicks, users>>

\* lines 107-120: one turn of the loop, the COUNT of the clicks of the next
\* row of the page; the answer after the last
ListCount(r) ==
    /\ req[r].pc = "list_count"
    /\ LET project == req[r].page[Len(req[r].result) + 1]
           result == Append(req[r].result, ProjectResponse(project))
       IN  IF Len(result) = Len(req[r].page)
           THEN /\ response' = [op |-> "list_projects", status |-> 200,
                                user_id |-> req[r].user_id,
                                result |-> result]
                /\ req' = [req EXCEPT ![r] = Idle]
           ELSE /\ req' = [req EXCEPT ![r].result = result]
                /\ UNCHANGED response
    /\ UNCHANGED <<projects, clicks, users>>

(***************************************************************************)
(* Platform resolver (utils/device_detect.py).                             *)
(***************************************************************************)
UA_IPHONE == "Mozilla/5.0 (iPhone; CPU iPhone OS 14_6 like Mac OS X) AppleWebKit/605.1.15 (KHTML, like Gecko) Version/14.1.1 Mobile/15E148 Safari/604.1"
UA_IPAD == "Mozilla/5.0 (iPad; CPU OS 14_6 like Mac OS X) AppleWebKit/605.1.15 (KHTML, like Gecko) Version/14.1.1 Mobile/15E148 Safari/604.1"
UA_ANDROID_PHONE == "Mozilla/5.0 (Linux; Android 11; Pixel 5) AppleWebKit/537.36 (KHTML, like Gecko) Chrome/90.0.4430.91 Mobile Safari/537.36"
UA_ANDROID_TABLET == "Mozilla/5.0 (Linux; Android 9; SM-T510) AppleWebKit/537.36 (KHTML, like Gecko) Chrome/90.0.4430.91 Safari/537.36"
UA_WINDOWS_PHONE == "Mozilla/5.0 (compatible; MSIE 10.0; Windows Phone 8.0; Trident/6.0; IEMobile/10.0; ARM; Touch; NOKIA; Lumia 920)"
UA_DESKTOP == "Mozilla/5.0 (Windows NT 10.0; Win64; x64) AppleWebKit/537.36 (KHTML, like Gecko) Chrome/90.0.4430.93 Safari/537.36"
UA_GARBAGE == "not a device"
UA_EXAMPLE == "Mozilla/5.0 (iPhone; CPU iPhone OS 14_6 like Mac OS X)"

\* user-agent headers of the requests; "" is an absent or empty header
UserAgents ==
    {"", UA_IPHONE, UA_IPAD, UA_ANDROID_PHONE, UA_ANDROID_TABLET,
     UA_WINDOWS_PHONE, UA_DESKTOP, UA_GARBAGE, UA_EXAMPLE}

(***************************************************************************)
(* user_agents.parse: the rules of the library's parser that decide the    *)
(* attributes the resolver reads, applied to the header text.              *)
(***************************************************************************)
\* first position at or after i where sub occurs in s, 0 when there is none
IndexFrom(s, sub, i) ==
    LET hits == {k \in i..(Len(s) - Len(sub) + 1) :
                     SubSeq(s, k, k + Len(sub) - 1) = sub}
    IN  IF hits = {} THEN 0 ELSE CHOOSE k \in hits : \A j \in hits : k <= j

\* sub in s
Contains(s, sub) == IndexFrom(s, sub, 1) # 0

\* what follows the first occurrence of marker in s
After(s, marker) ==
    LET i == IndexFrom(s, marker, 1) IN
    IF i = 0 THEN "" ELSE SubSeq(s, i + Len(marker), Len(s))

\* the longest prefix of s without a character of stops
RECURSIVE Until(_, _)
Until(s, stops) ==
    IF s = "" \/ SubSeq(s, 1, 1) \in stops THEN ""
    ELSE SubSeq(s, 1, 1) \o Until(SubSeq(s, 2, Len(s)), stops)

\* s with every "_" turned into "."
RECURSIVE Dotted(_)
Dotted(s) ==
    IF s = "" THEN ""
    ELSE (IF SubSeq(s, 1, 1) = "_" THEN "." ELSE SubSeq(s, 1, 1))
             \o Dotted(SubSeq(s, 2, Len(s)))

\* the first n dot-separated components of a version
RECURSIVE Components(_, _)
Components(v, n) ==
    LET head == Until(v, {"."}) IN
    IF n <= 1 \/ Len(head) = Len(v) THEN head
    ELSE head \o "." \o Components(SubSeq(v, Len(head) + 2, Len(v)), n - 1)

\* Windows NT kernel versions and the releases the parser names
WindowsRelease(nt) ==
    CASE nt = "10.0" -> "10"
      [] nt = "6.3" -> "8.1"
      [] nt = "6.2" -> "8"
      [] nt = "6.1" -> "7"
      [] nt = "6.0" -> "Vista"
      [] nt = "5.1" -> "XP"
      [] OTHER -> "NT"

\* A parser rule: the texts a header must all hold, the family it then gets,
\* and where its version (or model) stands.  As in the parser's rule files
\* the first rule that matches decides.
Rule(marks, family, after, kind) ==
    [marks |-> marks, family |-> family, after |-> after, kind |-> kind]

FirstMatch(rules, ua) ==
    LET hits == {i \in DOMAIN rules :
                     \A mark \in rules[i].marks : Contains(ua, mark)}
    IN  rules[CHOOSE i \in hits : \A j \in hits : i <= j]

\* the text after the rule's marker, up to the end of the token
Token(ua, rule) == Until(After(ua, rule.after), {" ", ";", ")"})

OsRules ==
    <<Rule({"Windows Phone"}, "Windows Phone", "Windows Phone ", "plain"),
      Rule({"iPhone", " OS "}, "iOS", " OS ", "dotted"),
      Rule({"iPad", " OS "}, "iOS", " OS ", "dotted"),
      Rule({"iPod", " OS "}, "iOS", " OS ", "dotted"),
      Rule({"Android"}, "Android", "Android ", "plain"),
      Rule({"Windows NT"}, "Windows", "Windows NT ", "windows"),
      Rule({"Mac OS X"}, "Mac OS X", "Mac OS X ", "dotted"),
      Rule({"Linux"}, "Linux", "", "none"),
      Rule({}, "Other", "", "none")>>

os_version_string(ua, rule) ==
    CASE rule.kind = "plain" -> Token(ua, rule)
      [] rule.kind = "dotted" -> Dotted(Token(ua, rule))
      [] rule.kind = "windows" -> WindowsRelease(Token(ua, rule))
      [] OTHER -> ""

BrowserRules ==
    <<Rule({"IEMobile/"}, "IE Mobile", "IEMobile/", "plain"),
      Rule({"iPhone", "CriOS/"}, "Chrome Mobile iOS", "CriOS/", "plain"),
      Rule({"iPad", "CriOS/"}, "Chrome Mobile iOS", "CriOS/", "plain"),
      Rule({"iPod", "CriOS/"}, "Chrome Mobile iOS", "CriOS/", "plain"),
      Rule({"iPhone", "Version/", "Safari"}, "Mobile Safari", "Version/", "plain"),
      Rule({"iPad", "Version/", "Safari"}, "Mobile Safari", "Version/", "plain"),
      Rule({"iPod", "Version/", "Safari"}, "Mobile Safari", "Version/", "plain"),
      Rule({"iPhone"}, "Mobile Safari UI/WKWebView", "", "none"),
      Rule({"iPad"}, "Mobile Safari UI/WKWebView", "", "none"),
      Rule({"iPod"}, "Mobile Safari UI/WKWebView", "", "none"),
      Rule({"Firefox/", "Android"}, "Firefox Mobile", "Firefox/", "plain"),
      Rule({"Firefox/"}, "Firefox", "Firefox/", "plain"),
      Rule({"Chrome/", "Android", "Mobile"}, "Chrome Mobile", "Chrome/", "plain"),
      Rule({"Chrome/"}, "Chrome", "Chrome/", "plain"),
      Rule({"Version/", "Safari"}, "Safari", "Version/", "plain"),
      Rule({}, "Other", "", "none")>>

\* major.minor.patch of the browser
browser_version_string(ua, rule) ==
    IF rule.kind = "plain" THEN Components(Token(ua, rule), 3) ELSE ""

DeviceRules ==
    <<Rule({"iPhone"}, "iPhone", "", "fixed"),
      Rule({"iPad"}, "iPad", "", "fixed"),
      Rule({"iPod"}, "iPod", "", "fixed"),
      Rule({"Lumia "}, "Lumia ", "Lumia ", "model"),
      Rule({"Android", "; SM-"}, "Samsung ", "; ", "android"),
      Rule({"Android", "Mobile"}, "Generic Smartphone", "; ", "android"),
      Rule({"Android"}, "Generic Tablet", "; ", "android"),
      Rule({"bot"}, "Spider", "", "fixed"),
      Rule({"Bot"}, "Spider", "", "fixed"),
      Rule({"crawler"}, "Spider", "", "fixed"),
      Rule({"spider"}, "Spider", "", "fixed"),
      Rule({"Macintosh"}, "Mac", "", "fixed"),
      Rule({}, "Other", "", "fixed")>>

\* the model name of an Android header: what follows the OS version, up to
\* the closing bracket or the build tag
AndroidModel(ua, rule) ==
    LET model == Until(After(After(ua, "Android "), rule.after), {")", ";"})
        build == IndexFrom(model, " Build", 1)
    IN  IF build = 0 THEN model ELSE SubSeq(model, 1, build - 1)

device_family(ua, rule) ==
    CASE rule.kind = "model" -> rule.family \o Token(ua, rule)
      [] rule.kind = "android" ->
           LET model == AndroidModel(ua, rule) IN
           IF model = "" THEN rule.family
           ELSE IF rule.family = "Samsung " THEN rule.family \o model
           ELSE model
      [] OTHER -> rule.family

\* UserAgent.is_tablet
is_tablet(ua, device, os, browser) ==
    \/ device = "iPad"
    \/ /\ os = "Android"
       /\ ~Contains(ua, "Mobile Safari")
       /\ browser # "Firefox Mobile"

\* UserAgent.is_mobile
is_mobile(ua, device, os, browser) ==
    \/ device \in {"iPhone", "iPod", "Generic Smartphone"}
    \/ browser \in {"IE Mobile", "Chrome Mobile", "Chrome Mobile iOS"}
    \/ os = "Android" /\ ~is_tablet(ua, device, os, browser)
    \/ os = "Windows Phone"
    \/ Contains(ua, "iPhone;")

\* the attributes of a UserAgent object
UserAgent(ua, device, os, os_version, browser, browser_version) ==
    [device_family |-> device,
     os_family |-> os,
     os_version_string |-> os_version,
     browser_family |-> browser,
     browser_version_string |-> browser_version,
     is_mobile |-> is_mobile(ua, device, os, browser),
     is_tablet |-> is_tablet(ua, device, os, browser),
     is_bot |-> device = "Spider"]

ParseWith(ua, device_rule, os_rule, browser_rule) ==
    UserAgent(ua, device_family(ua, device_rule),
              os_rule.family, os_version_string(ua, os_rule),
              browser_rule.family, browser_version_string(ua, browser_rule))

ParseHeader(ua) ==
    ParseWith(ua, FirstMatch(DeviceRules, ua), FirstMatch(OsRules, ua),
              FirstMatch(BrowserRules, ua))

\* the parse of each header the requests carry, computed once
ParsedHeaders == [ua \in UserAgents \ {""} |-> ParseHeader(ua)]

parse(user_agent_string) ==
    IF user_agent_string \in DOMAIN ParsedHeaders
    THEN ParsedHeaders[user_agent_string]
    ELSE ParseHeader(user_agent_string)

\* Python's `x or default` on strings
OrDefault(x, default) == IF Truthy(x) THEN x ELSE default

PlatformUngated(user_agent) ==
    IF user_agent.os_family = "iOS" THEN "ios"
    ELSE IF user_agent.os_family = "Android" THEN "android"
    ELSE "other"

\* lines 29-37: the classification of a parsed header
Platform(user_agent) ==
    IF user_agent.is_mobile /\ user_agent.os_family = "iOS" THEN "ios"
    ELSE IF user_agent.os_family = "Android" THEN "android"
    ELSE "other"

detect_platform(user_agent_string) ==
    IF user_agent_string = "" THEN "other"
    ELSE Platform(parse(user_agent_string))

DeviceInfoUnknownPlatform ==
    [platform |-> "Unknown", device |-> "Unknown", os |-> "Unknown",
     os_version |-> "Unknown", browser |-> "Unknown",
     is_mobile |-> FALSE, is_tablet |-> FALSE, is_bot |-> FALSE]

\* lines 55-64: the description of an absent header
DeviceInfoOfNone ==
    [platform |-> "other", device |-> "Unknown", os |-> "Unknown",
     os_version |-> "Unknown", browser |-> "Unknown",
     is_mobile |-> FALSE, is_tablet |-> FALSE, is_bot |-> FALSE]

\* lines 66-79: the description of a parsed header
DeviceInfo(user_agent, platform) ==
    [platform |-> platform,
     device |-> OrDefault(user_agent.device_family, "Unknown"),
     os |-> OrDefault(user_agent.os_family, "Unknown"),
     os_version |-> OrDefault(user_agent.os_version_string, "Unknown"),
     browser |-> OrDefault(user_agent.browser_family, "Unknown"),
     browser_version |->
         OrDefault(user_agent.browser_version_string, "Unknown"),
     is_mobile |-> user_agent.is_mobile,
     is_tablet |-> user_agent.is_tablet,
     is_bot |-> user_agent.is_bot]

get_device_info(user_agent_string) ==
    IF user_agent_string = "" THEN DeviceInfoOfNone
    ELSE DeviceInfo(parse(user_agent_string),
                    detect_platform(user_agent_string))

(***************************************************************************)
(* redirect_to_store (routers/redirect.py).                                *)
(***************************************************************************)
RedirectUrlNoDefault(project, platform) ==
    IF platform = "ios" THEN project.ios_url
    ELSE IF platform = "android" THEN project.android_url
    ELSE project.fallback_url

\* lines 77-83: the destination for a platform classification
RedirectUrl(project, platform) ==
    IF platform = "ios" THEN project.ios_url
    ELSE IF platform = "android" THEN project.android_url
    ELSE OrDefault(project.fallback_url, project.android_url)

redirect_to_store(short_code, user_agent) ==
    /\ LET found == ByShortCode(projects, short_code) IN
       IF found = {}
       THEN response' = [op |-> "redirect_to_store", short_code |-> short_code,
                         user_agent |-> user_agent, status |-> 404]
       ELSE LET project == CHOOSE p \in found : TRUE
                platform == detect_platform(user_agent)
                device_info == get_device_info(user_agent)
            IN  response' =
                  [op |-> "redirect_to_store", short_code |-> short_code,
                   user_agent |-> user_agent, status |-> 307,
                   project_id |-> project.id,
                   platform |-> platform, device_info |-> device_info,
                   location |-> RedirectUrl(project, platform)]
    /\ UNCHANGED <<projects, clicks, users, req>>

(***************************************************************************)
(* get_redirect_info (routers/redirect.py): what a redirect would do.      *)
(***************************************************************************)
InfoUrlAndroidForOther(project, platform) ==
    IF platform = "ios" THEN project.ios_url
    ELSE project.android_url

\* lines 122-128: the destination reported for a platform classification
InfoUrl(project, platform) ==
    IF platform = "ios" THEN project.ios_url
    ELSE IF platform = "android" THEN project.android_url
    ELSE OrDefault(project.fallback_url, project.android_url)

get_redirect_info(short_code, user_agent) ==
    /\ LET found == ByShortCode(projects, short_code) IN
       IF found = {}
       THEN response' = [op |-> "get_redirect_info", short_code |-> short_code,
                         user_agent |-> user_agent, status |-> 404]
       ELSE LET project == CHOOSE p \in found : TRUE
                platform == detect_platform(user_agent)
                device_info == get_device_info(user_agent)
            IN  response' =
                  [op |-> "get_redirect_info", short_code |-> short_code,
                   user_agent |-> user_agent, status |-> 200,
                   app_name |-> project.app_name,
                   detected_platform |-> platform,
                   device_info |-> device_info,
                   would_redirect_to |-> InfoUrl(project, platform),
                   available_urls |-> [ios |-> project.ios_url,
                                       android |-> project.android_url,
                                       fallback |-> project.fallback_url]]
    /\ UNCHANGED <<projects, clicks, users, req>>

(***************************************************************************)
(* Click events.  No handler of routers/ inserts a Click row; the event a  *)
(* resolved redirect leaves behind is taken from the data model: one row   *)
(* per redirect, referencing the project and carrying the platform.        *)
(***************************************************************************)
MaxClicks == 2        \* rows the clicks table may hold

record_click(r, short_code, user_agent) ==
    /\ req[r].pc = "idle"
    /\ Cardinality(clicks) < MaxClicks
    /\ LET found == ByShortCode(projects, short_code) IN
       /\ found # {}
       /\ LET project == CHOOSE p \in found : TRUE
              click == [id |-> NextId(clicks), project_id |-> project.id,
                        platform |-> detect_platform(user_agent)]
          IN  /\ clicks' = clicks \cup {click}
              /\ response' = [op |-> "record_click", status |-> 307,
                              click |-> click]
    /\ UNCHANGED <<projects, users, req>>

(***************************************************************************)
(* Specifications.                                                         *)
(***************************************************************************)
NoResponse == [op |-> "none"]

\* the request body of the docstring example, without a fallback
ExampleBody ==
    [app_name |-> "Mi Super App",
     ios_url |-> "https://apps.apple.com/app/id123456789",
     android_url |->
         "https://play.google.com/store/apps/details?id=com.example.app",
     fallback_url |-> None]

\* update bodies: nothing sent, a fallback set or cleared, a store URL sent
\* again or nulled
SomeUpdates ==
    {u \in ProjectUpdate :
        /\ \A f \in DOMAIN u : u[f] \in UpdateValues(f)
        /\ DOMAIN u \in {{}, {"fallback_url"}, {"ios_url"}, {"android_url"}}
        /\ \A f \in DOMAIN u : u[f] # ""}

Init ==
    /\ projects = {}
    /\ clicks = {}
    /\ users = RegisteredUsers
    /\ req = [r \in Requests |-> Idle]
    /\ response = NoResponse

\* Spec: concurrent create_project requests racing on the projects table,
\* while the first worker also serves deletes.
Next ==
    \/ \E r \in Requests : CreateBegin(r, 1, ExampleBody)
    \/ \E r \in Requests : CreateCheck(r, RaceGenerate)
    \/ \E r \in Requests : CreateInsert(r)
    \/ \E r \in Requests : CreateRefresh(r)
    \/ \E project_id \in 1..MaxId : delete_project(1, 1, project_id)
    \/ DeleteCascade(1)
    \/ DeleteCommit(1)

Spec == Init /\ [][Next]_vars

\* update bodies of overlapping requests: a fallback set, a store URL nulled
RaceUpdates ==
    {[fallback_url |-> "https://example.com"], [ios_url |-> None],
     [android_url |-> None]}

\* the two workers whose requests overlap
Workers == {1, 2}

\* SpecStore: creates, updates and deletes of one user served by two
\* workers, their round trips interleaved.
NextStore ==
    \/ \E r \in Workers : CreateBegin(r, 1, ExampleBody)
    \/ \E r \in Workers : CreateCheck(r, RaceGenerate)
    \/ \E r \in Workers : CreateInsert(r)
    \/ \E r \in Workers : CreateRefresh(r)
    \/ \E r \in Workers, project_id \in 1..MaxId, update_data \in RaceUpdates :
         update_project(r, 1, project_id, update_data)
    \/ \E r \in Workers : UpdateCommit(r)
    \/ \E r \in Workers : UpdateRefresh(r)
    \/ \E r \in Workers : UpdateCount(r)
    \/ \E r \in Workers, project_id \in 1..MaxId :
         delete_project(r, 1, project_id)
    \/ \E r \in Workers : DeleteCascade(r)
    \/ \E r \in Workers : DeleteCommit(r)

SpecStore == Init /\ [][NextStore]_vars

\* SpecSeq: one create_project request at a time, with a generation cap
\* large enough for a long run of collisions.
NextSeq ==
    \/ CreateBegin(1, 1, ExampleBody)
    \/ CreateCheck(1, MaxGenerate)
    \/ CreateInsert(1)
    \/ CreateRefresh(1)
    \/ \E project_id \in 1..MaxId, update_data \in SomeUpdates :
         update_project(1, 1, project_id, update_data)
    \/ UpdateCommit(1)
    \/ UpdateRefresh(1)
    \/ UpdateCount(1)
    \/ \E project_id \in 1..MaxId : delete_project(1, 1, project_id)
    \/ DeleteCascade(1)
    \/ DeleteCommit(1)

SpecSeq == Init /\ [][NextSeq]_vars

\* SpecRedirect: redirects against every small store the service can hold.
ProjectRows ==
    [id: 1..MaxId, user_id: Users, app_name: AppNames, ios_url: IosUrls,
     android_url: AndroidUrls, fallback_url: FallbackUrls, short_code: Codes]

Stores ==
    {{}} \cup {{p} : p \in ProjectRows}
         \cup {{p, q} : <<p, q>> \in
                  {pq \in ProjectRows \X ProjectRows :
                      /\ pq[1].id < pq[2].id
                      /\ pq[1].short_code # pq[2].short_code}}

\* codes a client may ask for: the generated ones and one never generated
RequestCodes == Codes \cup {"zzzzzz"}

InitRedirect ==
    /\ projects \in Stores
    /\ clicks = {}
    /\ users = RegisteredUsers
    /\ req = [r \in Requests |-> Idle]
    /\ response = NoResponse

NextRedirect ==
    \/ \E short_code \in RequestCodes, user_agent \in UserAgents :
         redirect_to_store(short_code, user_agent)
    \/ \E short_code \in RequestCodes, user_agent \in UserAgents :
         get_redirect_info(short_code, user_agent)

SpecRedirect == InitRedirect /\ [][NextRedirect]_vars

\* SpecUrls: creates and updates whose URLs are not all absolute http(s)
\* URLs, some long enough to pass the length constraint, some not.
UrlBodies ==
    {ExampleBody,
     [ExampleBody EXCEPT !.ios_url = "not-a-url-at-all"],
     [ExampleBody EXCEPT !.fallback_url = "ftp://example.com/app"],
     [ExampleBody EXCEPT !.android_url = "bad"]}

UrlUpdates ==
    {[ios_url |-> "https://apps.apple.com/app/id987654321"],
     [android_url |-> "market://details?id=com.example.app"],
     [fallback_url |-> "example.com/app"],
     [ios_url |-> "bad"]}

NextUrls ==
    \/ \E body \in UrlBodies : CreateBegin(1, 1, body)
    \/ \E body \in UrlBodies : CreateInvalid(body)
    \/ CreateCheck(1, RaceGenerate)
    \/ CreateInsert(1)
    \/ CreateRefresh(1)
    \/ \E project_id \in 1..MaxId, update_data \in UrlUpdates :
         update_project(1, 1, project_id, update_data)
    \/ UpdateCommit(1)
    \/ UpdateRefresh(1)
    \/ UpdateCount(1)
    \/ \E update_data \in UrlUpdates : UpdateInvalid(update_data)

SpecUrls == Init /\ [][NextUrls]_vars

\* SpecShortUrl: generate_short_url applied to base URLs with and without
\* trailing slashes.
Schemes == {"http", "https"}
Hosts == {"host", "localhost:8000", "one.link", "example.com/links"}
TrailingSlashes == {"", "/", "//"}

BaseUrls ==
    {scheme \o "://" \o host \o slashes :
        scheme \in Schemes, host \in Hosts, slashes \in TrailingSlashes}

ShortCodes == Codes \cup {"abc123", "zzzzzz", "000000", "AAAAAA"}

BuildShortUrl(base_url, short_code) ==
    /\ response' = [op |-> "generate_short_url", base_url |-> base_url,
                    short_code |-> short_code,
                    short_url |-> generate_short_url(base_url, short_code)]
    /\ UNCHANGED <<projects, clicks, users, req>>

NextShortUrl ==
    \E base_url \in BaseUrls, short_code \in ShortCodes :
        BuildShortUrl(base_url, short_code)

SpecShortUrl == Init /\ [][NextShortUrl]_vars

\* SpecOwner: two users reading, updating and deleting the stored rows,
\* their own and each other's, their requests served by two workers.
OwnerStores ==
    {store \in Stores :
        /\ Cardinality(store) = 2
        /\ \A p \in store :
              /\ p.id <= 2
              /\ p.fallback_url = None
              /\ p.id = 1 => p.user_id = 1}

OwnerUpdates == {[app_name |-> "Otra App"]}

\* skip and limit are unvalidated integers of the query string
Skips == {-1, 0, 1}
Limits == {-1, 1, 100}

InitOwner ==
    /\ projects \in OwnerStores
    /\ clicks = {}
    /\ users = RegisteredUsers
    /\ req = [r \in Requests |-> Idle]
    /\ response = NoResponse

NextOwner ==
    \/ \E r \in Workers, user \in Users, project_id \in 1..MaxId :
         get_project(r, user, project_id)
    \/ \E r \in Workers : GetCount(r)
    \/ \E r \in Workers, user \in Users, skip \in Skips, limit \in Limits :
         list_projects(r, user, skip, limit)
    \/ \E r \in Workers : ListCount(r)
    \/ \E r \in Workers, user \in Users, project_id \in 1..MaxId,
          update_data \in OwnerUpdates :
         update_project(r, user, project_id, update_data)
    \/ \E r \in Workers : UpdateCommit(r)
    \/ \E r \in Workers : UpdateRefresh(r)
    \/ \E r \in Workers : UpdateCount(r)
    \/ \E r \in Workers, user \in Users, project_id \in 1..MaxId :
         delete_project(r, user, project_id)
    \/ \E r \in Workers : DeleteCascade(r)
    \/ \E r \in Workers : DeleteCommit(r)

SpecOwner == InitOwner /\ [][NextOwner]_vars

\* SpecUpdate: updates and deletes of one user's row, served by two workers,
\* next to a row of another user.
SentUpdates ==
    {<<>>,
     [app_name |-> "Otra App"],
     [fallback_url |-> "https://example.com"],
     [app_name |-> "Mi Super App", fallback_url |-> "https://example.com"],
     [app_name |-> "Otra App", ios_url |-> None]}

InitUpdate ==
    /\ projects \in {store \in OwnerStores : \E p \in store : p.user_id = 2}
    /\ clicks = {}
    /\ users = RegisteredUsers
    /\ req = [r \in Requests |-> Idle]
    /\ response = NoResponse

NextUpdate ==
    \/ \E r \in Workers, project_id \in 1..MaxId, update_data \in SentUpdates :
         update_project(r, 1, project_id, update_data)
    \/ \E r \in Workers : UpdateCommit(r)
    \/ \E r \in Workers : UpdateRefresh(r)
    \/ \E r \in Workers : UpdateCount(r)
    \/ \E project_id \in 1..MaxId : delete_project(2, 1, project_id)
    \/ DeleteCascade(2)
    \/ DeleteCommit(2)

SpecUpdate == InitUpdate /\ [][NextUpdate]_vars

(***************************************************************************)
(* Authentication (auth.py): the dependency every project operation        *)
(* resolves before its handler runs.                                       *)
(***************************************************************************)
SECRET_KEY == "your-secret-key-change-this-in-production"

\* a bearer token: a JWT signed with some key, expired or not, with or
\* without a subject, or a string that is no JWT at all
Jwt(key, expired, sub) ==
    [format |-> "jwt", key |-> key, expired |-> expired, sub |-> sub]

TOKEN_ANA == Jwt(SECRET_KEY, FALSE, "ana@example.com")
TOKEN_BEN == Jwt(SECRET_KEY, FALSE, "ben@example.com")
TOKEN_NOBODY == Jwt(SECRET_KEY, FALSE, "carl@example.com")
TOKEN_NO_SUB == Jwt(SECRET_KEY, FALSE, None)
TOKEN_EXPIRED == Jwt(SECRET_KEY, TRUE, "ana@example.com")
TOKEN_FORGED == Jwt("another-key", FALSE, "ana@example.com")
TOKEN_GARBAGE ==
    [format |-> "garbage", key |-> None, expired |-> FALSE, sub |-> None]

Tokens ==
    {TOKEN_ANA, TOKEN_BEN, TOKEN_NOBODY, TOKEN_NO_SUB, TOKEN_EXPIRED,
     TOKEN_FORGED, TOKEN_GARBAGE}

\* jwt.decode(token, SECRET_KEY, algorithms=[ALGORITHM]): the payload, or a
\* JWTError for a malformed token, a wrong signature or an expired token
jwt_decode(token) ==
    IF token.format # "jwt" \/ token.key # SECRET_KEY \/ token.expired
    THEN [error |-> TRUE, sub |-> None]
    ELSE [error |-> FALSE, sub |-> token.sub]

\* db.query(User).filter(User.email == email)
get_user_by_email(rows, email) == {u \in rows : u.email = email}

credentials_exception == [status |-> 401]

get_current_user(rows, token) ==
    LET payload == jwt_decode(token) IN
    IF payload.error THEN credentials_exception
    ELSE IF payload.sub = None THEN credentials_exception
    ELSE LET found == get_user_by_email(rows, payload.sub) IN
         IF found = {} THEN credentials_exception
         ELSE [status |-> 200, user |-> CHOOSE u \in found : TRUE]

get_current_active_user_unchecked(rows, token) == get_current_user(rows, token)

get_current_active_user(rows, token) ==
    LET current_user == get_current_user(rows, token) IN
    IF current_user.status # 200 THEN current_user
    ELSE IF ~current_user.user.is_active THEN [status |-> 400]
    ELSE current_user

AuthUpdates == {[app_name |-> "Mi Super App"]}

\* the requests of the five project endpoints
ProjectRequests ==
    {[op |-> "create_project", body |-> ExampleBody],
     [op |-> "list_projects", skip |-> 0, limit |-> 100]}
    \cup {[op |-> "get_project", project_id |-> id] : id \in 1..2}
    \cup {[op |-> "update_project", project_id |-> id,
           update_data |-> update_data] :
             id \in 1..2, update_data \in AuthUpdates}
    \cup {[op |-> "delete_project", project_id |-> id] : id \in 1..2}

CreateRequests == {request \in ProjectRequests : request.op = "create_project"}

\* the dependency raises: the handler does not run
AuthFailure(r, request, token) ==
    /\ req[r].pc = "idle"
    /\ get_current_active_user(users, token).status # 200
    /\ response' = [op |-> request.op, token |-> token,
                    status |-> get_current_active_user(users, token).status]
    /\ UNCHANGED <<projects, clicks, users, req>>

\* the dependency returns current_user: its SELECT on users is a round
\* trip of its own, made before the handler is called
Authenticated(r, request, token) ==
    /\ req[r].pc = "idle"
    /\ get_current_active_user(users, token).status = 200
    /\ req' = [req EXCEPT ![r] =
                  [pc |-> "authenticated", request |-> request,
                   token |-> token,
                   current_user |->
                       get_current_active_user(users, token).user]]
    /\ UNCHANGED <<projects, clicks, users, response>>

\* the handler is called with current_user and makes its first round trip
ProjectOperation(r) ==
    /\ req[r].pc = "authenticated"
    /\ \/ /\ req[r].request.op = "create_project"
          /\ CreateBegin(r, req[r].current_user.id, req[r].request.body)
       \/ /\ req[r].request.op = "list_projects"
          /\ list_projects(r, req[r].current_user.id,
                           req[r].request.skip, req[r].request.limit)
       \/ /\ req[r].request.op = "get_project"
          /\ get_project(r, req[r].current_user.id,
                         req[r].request.project_id)
       \/ /\ req[r].request.op = "update_project"
          /\ update_project(r, req[r].current_user.id,
                            req[r].request.project_id,
                            req[r].request.update_data)
       \/ /\ req[r].request.op = "delete_project"
          /\ delete_project(r, req[r].current_user.id,
                            req[r].request.project_id)

\* SpecAuth: project operations asked with every kind of token, against a
\* users table where the second user is active, inactive or gone.  Slot 1
\* serves the reads, updates and deletes and slot 2 the creates; the
\* requests of the two interleave at every round trip, the dependency's
\* SELECT on users included.
UserTables ==
    {RegisteredUsers,
     {[id |-> 1, email |-> "ana@example.com", is_active |-> TRUE],
      [id |-> 2, email |-> "ben@example.com", is_active |-> FALSE]},
     {[id |-> 1, email |-> "ana@example.com", is_active |-> TRUE]}}

InitAuth ==
    /\ projects = {}
    /\ clicks = {}
    /\ users \in UserTables
    /\ req = [r \in Requests |-> Idle]
    /\ response = NoResponse

NextAuth ==
    \/ \E request \in ProjectRequests, token \in Tokens :
          AuthFailure(1, request, token)
    \/ \E request \in ProjectRequests \ CreateRequests, token \in Tokens :
          Authenticated(1, request, token)
    \/ \E request \in CreateRequests, token \in Tokens :
          Authenticated(2, request, token)
    \/ \E r \in Workers : ProjectOperation(r)
    \/ \E r \in Workers : CreateCheck(r, RaceGenerate)
    \/ \E r \in Workers : CreateInsert(r)
    \/ \E r \in Workers : CreateRefresh(r)
    \/ ListCount(1)
    \/ GetCount(1)
    \/ UpdateCommit(1)
    \/ UpdateRefresh(1)
    \/ UpdateCount(1)
    \/ DeleteCascade(1)
    \/ DeleteCommit(1)

SpecAuth == InitAuth /\ [][NextAuth]_vars

(***************************************************************************)
(* register (routers/auth_router.py, routers/auth.py): the existence       *)
(* check, the insert and the refresh are three round trips to the users    *)
(* table.                                                                  *)
(***************************************************************************)
Emails == {"ana@example.com", "ben@example.com", "carl@example.com"}

UniqueEmailOff(rows, row) == FALSE

\* email = Column(String, unique=True): the constraint a commit enforces
UniqueEmailViolated(rows, row) ==
    \E u \in rows : u.id # row.id /\ u.email = row.email

\* lines 42-47: the existence check; 400 when the email is taken
RegisterBegin(r, email) ==
    /\ req[r].pc = "idle"
    /\ IF get_user_by_email(users, email) # {}
       THEN /\ response' = [op |-> "register", email |-> email,
                            status |-> 400,
                            detail |-> "Email already registered"]
            /\ UNCHANGED req
       ELSE /\ req' = [req EXCEPT ![r] = [pc |-> "register", email |-> email]]
            /\ UNCHANGED response
    /\ UNCHANGED <<projects, clicks, users>>

\* lines 50-60: the row is built, added and committed; an IntegrityError
\* is not caught by the handler and reaches the client as a 500
RegisterInsert(r) ==
    /\ req[r].pc = "register"
    /\ LET db_user == [id |-> NextId(users), email |-> req[r].email,
                       is_active |-> TRUE]
       IN  IF UniqueEmailViolated(users, db_user)
           THEN /\ response' = [op |-> "register", email |-> req[r].email,
                                status |-> 500]
                /\ req' = [req EXCEPT ![r] = Idle]
                /\ UNCHANGED users
           ELSE /\ users' = users \cup {db_user}
                /\ req' = [req EXCEPT ![r] =
                              [pc |-> "register_refresh",
                               email |-> req[r].email, id |-> db_user.id]]
                /\ UNCHANGED response
    /\ UNCHANGED <<projects, clicks>>

\* lines 61-63: db.refresh(db_user) reads the row back by primary key and
\* the handler returns it
RegisterRefresh(r) ==
    /\ req[r].pc = "register_refresh"
    /\ LET found == {u \in users : u.id = req[r].id} IN
       IF found = {}
       THEN response' = [op |-> "register", email |-> req[r].email,
                         status |-> 500]
       ELSE response' = [op |-> "register", email |-> req[r].email,
                         status |-> 201, user |-> CHOOSE u \in found : TRUE]
    /\ req' = [req EXCEPT ![r] = Idle]
    /\ UNCHANGED <<projects, clicks, users>>

\* SpecRegister: concurrent registrations on an empty users table.
InitRegister ==
    /\ projects = {}
    /\ clicks = {}
    /\ users = {}
    /\ req = [r \in Requests |-> Idle]
    /\ response = NoResponse

NextRegister ==
    \/ \E r \in Requests, email \in Emails : RegisterBegin(r, email)
    \/ \E r \in Requests : RegisterInsert(r)
    \/ \E r \in Requests : RegisterRefresh(r)

SpecRegister == InitRegister /\ [][NextRegister]_vars

\* user-agents of the visitors that follow a link
ClickAgents == {UA_IPHONE, UA_ANDROID_PHONE, UA_DESKTOP}

\* SpecLink: links are created, followed and deleted.
NextLink ==
    \/ CreateBegin(1, 1, ExampleBody)
    \/ CreateCheck(1, RaceGenerate)
    \/ CreateInsert(1)
    \/ CreateRefresh(1)
    \/ \E short_code \in RequestCodes, user_agent \in ClickAgents :
         redirect_to_store(short_code, user_agent)
    \/ \E project_id \in 1..MaxId : delete_project(1, 1, project_id)
    \/ DeleteCascade(1)
    \/ DeleteCommit(1)

SpecLink == Init /\ [][NextLink]_vars

\* SpecCounts: the owner reads and updates projects while visitors follow
\* their links and projects are deleted.
CountAgents == {UA_IPHONE}
CountUpdates == {[app_name |-> "Mi Super App"]}

NextCounts ==
    \/ CreateBegin(1, 1, ExampleBody)
    \/ CreateCheck(1, RaceGenerate)
    \/ CreateInsert(1)
    \/ CreateRefresh(1)
    \/ \E short_code \in Codes, user_agent \in CountAgents :
         record_click(1, short_code, user_agent)
    \/ \E project_id \in 1..MaxId : get_project(1, 1, project_id)
    \/ GetCount(1)
    \/ list_projects(1, 1, 0, 100)
    \/ ListCount(1)
    \/ \E project_id \in 1..MaxId, update_data \in CountUpdates :
         update_project(1, 1, project_id, update_data)
    \/ UpdateCommit(1)
    \/ UpdateRefresh(1)
    \/ UpdateCount(1)
    \/ \E project_id \in 1..MaxId : delete_project(1, 1, project_id)
    \/ DeleteCascade(1)
    \/ DeleteCommit(1)

SpecCounts == Init /\ [][NextCounts]_vars

\* SpecClicks: projects of one owner collecting click events until they are
\* deleted.

NextClicks ==
    \/ CreateBegin(1, 1, ExampleBody)
    \/ CreateCheck(1, RaceGenerate)
    \/ CreateInsert(1)
    \/ CreateRefresh(1)
    \/ \E short_code \in Codes, user_agent \in ClickAgents :
         record_click(1, short_code, user_agent)
    \/ \E project_id \in 1..MaxId : delete_project(1, 1, project_id)
    \/ DeleteCascade(1)
    \/ DeleteCommit(1)

SpecClicks == Init /\ [][NextClicks]_vars

(***************************************************************************)
(* Properties.                                                             *)
(***************************************************************************)
CreateFailed == response.op = "create_project" /\ response.status = 500

Redirected == response.op = "redirect_to_store" /\ response.status = 307

\* the stored row a redirect response was computed from
RedirectedProject ==
    CHOOSE p \in projects : p.short_code = response.short_code

\* C1: in every state reachable by create_project, update_project and
\* delete_project calls, no two stored Project rows have the same short_code.
C1_ShortCodeUnique ==
    \A p, q \in projects : p.short_code = q.short_code => p = q

C1_Witness ==
    /\ Cardinality(projects) = 2
    /\ response.op = "update_project"
    /\ response.status = 200

\* C2: when every generated code collides, create_project stops after
\* exactly 10 generation attempts (and answers with a server error): no
\* request ever makes an 11th call to generate_short_code.
C2_StopsAfterTenAttempts ==
    \A r \in Requests :
        "generated" \in DOMAIN req[r] => req[r].generated <= 10

\* C3: when the first k generated codes collide and the (k+1)-th does not,
\* a lone create_project succeeds: its insert is accepted and adds one row,
\* which carries the code generated last, and it answers 201, never a
\* server error, having called generate_short_code k+1 times.
C3_SucceedsWithLastCode ==
    [][\A r \in Requests :
         /\ (req[r].pc = "insert" /\ req'[r].pc # "insert") =>
              /\ req'[r].pc = "create_refresh"
              /\ \E p \in projects' \ projects :
                    /\ projects' = projects \cup {p}
                    /\ p.id = req'[r].id
                    /\ p.short_code = req[r].short_code
         /\ (req[r].pc = "create_refresh" /\ req'[r].pc = "idle") =>
              /\ response'.op = "create_project"
              /\ response'.status = 201
              /\ response'.collisions = req[r].collisions
              /\ response'.generated = response'.collisions + 1
              /\ response'.project.short_code = req[r].short_code
              /\ response'.project \in projects']_vars

C3_Witness ==
    /\ response.op = "create_project"
    /\ response.status = 201
    /\ response.collisions = 3
    /\ response.generated = 4
    /\ response.project \in projects

\* C4: a create_project request whose insert hits the uniqueness constraint
\* (a concurrent request inserted the same code first) regenerates and
\* retries instead of failing: no create_project ends with a server error.
C4_InsertViolationRetried ==
    ~(CreateFailed /\ response.error = "IntegrityError")

\* C5: under every interleaving of concurrent create_project requests, an
\* insert of a short_code that a stored row already has is rejected by the
\* store's unique constraint and leaves the table as it was, so the table
\* never holds two rows with one short_code.
C5_InsertTimeRejection ==
    [][/\ \A r \in Requests :
            (/\ req[r].pc = "insert"
             /\ req'[r].pc # "insert"
             /\ \E p \in projects : p.short_code = req[r].short_code)
            => (projects' = projects /\ req'[r].pc = "idle" /\ CreateFailed')
       /\ Cardinality({p.short_code : p \in projects'})
            = Cardinality(projects')]_vars

C5_Witness ==
    CreateFailed /\ response.error = "IntegrityError" /\ projects # {}

\* C6: a redirect goes to the row's ios_url for 'ios', to its android_url
\* for 'android', and for 'other' to its fallback_url when a fallback is
\* set (neither null nor empty) and to its android_url otherwise; the
\* destination is always one of the row's three URLs.
C6_DestinationByPlatform ==
    Redirected =>
        LET p == RedirectedProject IN
        /\ response.platform = "ios" => response.location = p.ios_url
        /\ response.platform = "android" => response.location = p.android_url
        /\ (response.platform = "other" /\ p.fallback_url \notin {None, ""})
             => response.location = p.fallback_url
        /\ (response.platform = "other" /\ p.fallback_url \in {None, ""})
             => response.location = p.android_url
        /\ response.platform \in {"ios", "android", "other"}
        /\ response.location \in {p.ios_url, p.android_url, p.fallback_url}

C6_Witness ==
    /\ Redirected
    /\ response.platform = "other"
    /\ RedirectedProject.fallback_url = None
    /\ response.location = RedirectedProject.android_url

\* C7: a redirect for a short code no stored row has answers 404 with no
\* destination and leaves the tables unchanged.
C7_UnknownCodeNotFound ==
    [][(/\ response'.op = "redirect_to_store"
        /\ ~\E p \in projects : p.short_code = response'.short_code)
       => /\ response'.status = 404
          /\ "location" \notin DOMAIN response'
          /\ projects' = projects
          /\ clicks' = clicks]_vars

C7_Witness ==
    /\ response.op = "redirect_to_store"
    /\ response.status = 404
    /\ projects # {}
    /\ ~\E p \in projects : p.short_code = response.short_code

\* C8: detect_platform answers 'other' for an empty user-agent, 'ios'
\* exactly when the parsed OS family is iOS and the mobile flag is set,
\* 'android' exactly when the parsed OS family is Android (whatever the
\* mobile flag), and 'other' in every remaining case.
C8_PlatformClassification ==
    Redirected =>
        LET ua == response.user_agent
            os == response.device_info.os
            mobile == response.device_info.is_mobile
        IN  /\ ua = "" => response.platform = "other"
            /\ response.platform = "ios"
                 <=> (ua # "" /\ os = "iOS" /\ mobile)
            /\ response.platform = "android" <=> (ua # "" /\ os = "Android")
            /\ response.platform = "other"
                 <=> (ua = "" \/ (os # "Android" /\ ~(os = "iOS" /\ mobile)))

C8_Witness ==
    /\ Redirected
    /\ response.user_agent = UA_IPAD
    /\ response.platform = "other"

\* C9: within one redirect, the platform field of get_device_info equals
\* the classification detect_platform gave for the same user-agent.
C9_DeviceInfoPlatformAgrees ==
    Redirected => response.device_info.platform = response.platform

C9_Witness ==
    /\ Redirected
    /\ response.user_agent = ""
    /\ response.device_info.platform = "other"
    /\ response.platform = "other"

\* C10: for the empty user-agent get_device_info returns a record with the
\* same fields as for a non-empty one (browser_version included), platform
\* 'other', every descriptive field 'Unknown' and every flag false.
C10_EmptyRecordSameFields ==
    (Redirected /\ response.user_agent = "") =>
        LET info == response.device_info IN
        /\ DOMAIN info = {"platform", "device", "os", "os_version", "browser",
                          "browser_version", "is_mobile", "is_tablet", "is_bot"}
        /\ info.platform = "other"
        /\ \A f \in {"device", "os", "os_version", "browser",
                     "browser_version"} : info[f] = "Unknown"
        /\ \A f \in {"is_mobile", "is_tablet", "is_bot"} : info[f] = FALSE

\* C11: a redirect that resolves to a stored row appends one click event
\* that references the row and carries the platform computed for the
\* request: after such a redirect the clicks table holds that event.
C11_RedirectRecordsClick ==
    Redirected =>
        \E c \in clicks :
            c.project_id = response.project_id /\ c.platform = response.platform

\* C12: a successful delete_project removes the row and every click that
\* references it and leaves the clicks of the other rows as they were; no
\* state holds a click whose project is not stored.
Deleted == response.op = "delete_project" /\ response.status = 204

C12_DeleteCascades ==
    [][/\ \A c \in clicks' : \E p \in projects' : p.id = c.project_id
       /\ \A r \in Requests :
            (req[r].pc = "delete_commit" /\ req'[r].pc = "idle") =>
                LET id == req[r].project.id IN
                /\ Deleted'
                /\ response'.project_id = id
                /\ projects' = {p \in projects : p.id # id}
                /\ clicks' = {c \in clicks : c.project_id # id}]_vars

\* a delete took the first click with its project and left the second, which
\* belongs to another project
C12_Witness ==
    /\ Deleted
    /\ projects # {}
    /\ \E c \in clicks : c.id = 2
    /\ \A c \in clicks : c.id # 1

\* C13: whatever creates and updates were made, explicit nulls for ios_url
\* or android_url included, every stored row has an iOS URL and an Android
\* URL.
C13_StoreUrlsNeverNull ==
    \A p \in projects : p.ios_url # None /\ p.android_url # None

\* an update that nulled a store URL was turned down and the row is still
\* there
C13_Witness ==
    /\ response.op = "update_project"
    /\ response.status = 500
    /\ response.error = "IntegrityError"
    /\ projects # {}

\* C14: every URL a stored row holds begins with http:// or https://, a
\* fallback URL being either absent or such a URL.
C14_StoredUrlsWellFormed ==
    \A p \in projects :
        /\ validate_url(p.ios_url)
        /\ validate_url(p.android_url)
        /\ p.fallback_url # None => validate_url(p.fallback_url)

\* C15: the short URL is the base URL without its trailing slashes, then
\* "/", then the code: it ends in "/" and the code, what precedes is the
\* base URL up to its trailing slashes and does not end in a slash, and the
\* scheme of the base URL, "://" included, is the scheme of the result;
\* ("http://host/", "abc123") gives "http://host/abc123".
EndsWith(s, suffix) ==
    /\ Len(s) >= Len(suffix)
    /\ SubSeq(s, Len(s) - Len(suffix) + 1, Len(s)) = suffix

OnlySlashes(s) == \A i \in 1..Len(s) : SubSeq(s, i, i) = "/"

Built == response.op = "generate_short_url"

C15_ShortUrlShape ==
    Built =>
        LET url == response.short_url
            base == response.base_url
            code == response.short_code
            stem == SubSeq(url, 1, Len(url) - Len(code) - 1)
        IN  /\ EndsWith(url, "/" \o code)
            /\ StartsWith(base, stem)
            /\ OnlySlashes(SubSeq(base, Len(stem) + 1, Len(base)))
            /\ ~EndsWith(stem, "/")
            /\ \A scheme \in Schemes :
                  StartsWith(base, scheme \o "://") =>
                      StartsWith(url, scheme \o "://")
            /\ (base = "http://host/" /\ code = "abc123") =>
                  url = "http://host/abc123"

C15_Witness ==
    /\ Built
    /\ response.base_url = "http://host/"
    /\ response.short_code = "abc123"
    /\ response.short_url = "http://host/abc123"

\* C16: the row a create_project stores has a short_code new to the table;
\* its 201 answer returns that row, with the short URL made of BASE_URL and
\* the row's short_code and with total_clicks 0; a redirect on the
\* short_code of a stored row resolves to that row.
Created == response.op = "create_project" /\ response.status = 201

C16_CreatedLinkResolves ==
    [][/\ \A r \in Requests :
            /\ (req[r].pc = "insert" /\ req'[r].pc = "create_refresh") =>
                  \E p \in projects' \ projects :
                      /\ p.id = req'[r].id
                      /\ p.short_code = req[r].short_code
                      /\ \A q \in projects : q.short_code # p.short_code
            /\ (req[r].pc = "create_refresh" /\ req'[r].pc = "idle"
                  /\ Created') =>
                  /\ response'.project \in projects'
                  /\ response'.project.id = req[r].id
                  /\ response'.project.short_code = req[r].short_code
                  /\ response'.short_url =
                        "http://localhost:8000/"
                            \o response'.project.short_code
                  /\ response'.total_clicks = 0
       /\ (req' = req /\ response'.op = "redirect_to_store") =>
              \A p \in projects' :
                  p.short_code = response'.short_code =>
                      /\ response'.status = 307
                      /\ response'.project_id = p.id
                      /\ response'.location \in
                            {p.ios_url, p.android_url, p.fallback_url}]_vars

\* a redirect resolved to the second link created, the first one still
\* stored
C16_Witness ==
    /\ Redirected
    /\ response.project_id = 2
    /\ Cardinality(projects) = 2
    /\ \E p \in projects :
          p.id = 2 /\ p.short_code = response.short_code

\* C17: the commit of an update_project leaves every other row as it was
\* and keeps the id, owner and short_code of the row it addresses; a field
\* of that row changes only if it was sent, and then to the value sent;
\* the fields not sent hold what they held, and when the row is as the
\* handler read it every field sent holds the value sent.  No other step
\* of update_project changes the table.
Updated == response.op = "update_project" /\ response.status = 200

C17_UpdateChangesSentFieldsOnly ==
    [][/\ projects' # projects =>
            \E r \in Requests :
                /\ req[r].pc \in {"update_commit", "delete_commit"}
                /\ req'[r].pc # req[r].pc
       /\ \A r \in Requests :
            (req[r].pc = "update_commit" /\ req'[r].pc # "update_commit") =>
               LET id == req[r].project.id
                   update_data == req[r].update_data
               IN  /\ \A p \in projects : p.id # id => p \in projects'
                   /\ \A q \in projects' : q.id # id => q \in projects
                   /\ (\E p \in projects : p.id = id)
                         <=> (\E q \in projects' : q.id = id)
                   /\ \A p \in projects, q \in projects' :
                        (p.id = id /\ q.id = id) =>
                           /\ q.user_id = p.user_id
                           /\ q.short_code = p.short_code
                           /\ \A f \in UpdateFields :
                                 q[f] # p[f] =>
                                    /\ f \in DOMAIN update_data
                                    /\ q[f] = update_data[f]
                           /\ (p = req[r].project
                                 /\ req'[r].pc = "update_refresh") =>
                                 \A f \in DOMAIN update_data :
                                     q[f] = update_data[f]]_vars

\* an update renamed one row, which kept the fallback URL an earlier update
\* gave it, next to a row that has neither
C17_Witness ==
    /\ Updated
    /\ response.project \in projects
    /\ response.project.app_name = "Otra App"
    /\ response.project.fallback_url = "https://example.com"
    /\ \E q \in projects :
          /\ q.id # response.project.id
          /\ q.app_name = "Mi Super App"
          /\ q.fallback_url = None

\* C18: get_project, update_project and delete_project asked by a user for
\* an id that no row of theirs has answer 404 and change neither table, and
\* they go on only with a stored row of the caller; whatever a request
\* does, it leaves the rows of the other users as they were and returns no
\* row of another user; list_projects returns rows of the caller only.
C18_OwnerOnly ==
    [][/\ LET answer == response' IN
          /\ (/\ answer.op \in {"get_project", "update_project",
                                "delete_project"}
              /\ req' = req
              /\ ~\E p \in projects :
                     p.id = answer.project_id /\ p.user_id = answer.user_id)
                => /\ answer.status = 404
                   /\ projects' = projects
                   /\ clicks' = clicks
          /\ "project" \in DOMAIN answer =>
                answer.project.user_id = answer.user_id
          /\ answer.op = "list_projects" =>
                \A i \in DOMAIN answer.result :
                    answer.result[i].project.user_id = answer.user_id
       /\ \A r \in Requests :
            /\ (req[r].pc = "idle" /\ "project" \in DOMAIN req'[r]) =>
                  /\ req'[r].project \in projects
                  /\ req'[r].project.id = req'[r].project_id
                  /\ req'[r].project.user_id = req'[r].user_id
            /\ (req'[r] # req[r] /\ "user_id" \in DOMAIN req[r]) =>
                  \A p \in projects :
                      p.user_id # req[r].user_id => p \in projects'
            /\ (req'[r] # req[r] /\ req[r].pc = "idle") =>
                  projects' = projects /\ clicks' = clicks]_vars

\* a user asked to delete a row that exists and belongs to the other user,
\* and the row is still there
C18_Witness ==
    /\ response.op = "delete_project"
    /\ response.status = 404
    /\ \E p \in projects :
          p.id = response.project_id /\ p.user_id # response.user_id

\* C19: for the same short code and user-agent, get_redirect_info and
\* redirect_to_store answer 404 together, and otherwise the URL and the
\* platform the one reports are the destination and the platform of the
\* other; get_redirect_info changes neither table.
SameRedirect(redirect, info) ==
    /\ redirect.op = "redirect_to_store"
    /\ info.op = "get_redirect_info"
    /\ redirect.short_code = info.short_code
    /\ redirect.user_agent = info.user_agent

InfoAgrees(redirect, info) ==
    /\ redirect.status = 404 <=> info.status = 404
    /\ redirect.status = 307 <=> info.status = 200
    /\ info.status = 200 =>
          /\ info.would_redirect_to = redirect.location
          /\ info.detected_platform = redirect.platform

C19_InfoMatchesRedirect ==
    [][/\ SameRedirect(response, response') => InfoAgrees(response, response')
       /\ SameRedirect(response', response) => InfoAgrees(response', response)
       /\ response'.op = "get_redirect_info" =>
              projects' = projects /\ clicks' = clicks]_vars

\* the info endpoint reported, for a desktop browser and a row whose
\* fallback URL is empty, the Android URL
C19_Witness ==
    /\ response.op = "get_redirect_info"
    /\ response.status = 200
    /\ response.user_agent = UA_DESKTOP
    /\ response.detected_platform = "other"
    /\ response.available_urls.fallback = ""
    /\ response.would_redirect_to = response.available_urls.android

\* C20: a project operation runs only for a token that is a JWT signed
\* with the service's key, not expired, whose subject is the email of a
\* stored user who is active, and it runs as that user; with any other
\* token the answer is 400 when the subject is a stored inactive user and
\* 401 otherwise, and neither table changes.
TokenUser(token) ==
    {u \in users :
        /\ token.format = "jwt"
        /\ token.key = SECRET_KEY
        /\ ~token.expired
        /\ token.sub # None
        /\ u.email = token.sub}

Refused == "token" \in DOMAIN response

C20_OnlyActiveUsersOperate ==
    [][/\ \A r \in Requests :
            /\ (req[r].pc = "idle" /\ req'[r].pc = "authenticated") =>
                  /\ req'[r].current_user \in TokenUser(req'[r].token)
                  /\ req'[r].current_user.is_active
                  /\ projects' = projects
                  /\ clicks' = clicks
            /\ (req[r].pc = "idle" /\ req'[r].pc # "idle") =>
                  req'[r].pc = "authenticated"
            /\ (req[r].pc = "authenticated" /\ req'[r] # req[r]) =>
                  IF req'[r].pc = "idle"
                  THEN /\ response'.op = req[r].request.op
                       /\ response'.user_id = req[r].current_user.id
                  ELSE req'[r].user_id = req[r].current_user.id
            /\ "user_id" \in DOMAIN req'[r] =>
                  \E u \in users' : u.id = req'[r].user_id /\ u.is_active
       /\ (response' # response /\ "user_id" \in DOMAIN response') =>
            \E u \in users' : u.id = response'.user_id /\ u.is_active
       /\ (Refused' /\ req' = req /\ response' # response) =>
            /\ response'.status =
                  IF TokenUser(response'.token) = {} THEN 401 ELSE 400
            /\ \A u \in TokenUser(response'.token) : ~u.is_active
            /\ projects' = projects
            /\ clicks' = clicks]_vars

\* the inactive user asked to delete and was refused with 400 while the
\* other user's row is stored and a create of hers has passed the
\* dependency and not started yet
C20_Witness ==
    /\ Refused
    /\ response.op = "delete_project"
    /\ response.status = 400
    /\ response.token = TOKEN_BEN
    /\ projects # {}
    /\ req[2].pc = "authenticated"
    /\ req[2].token = TOKEN_ANA

\* C21: the total_clicks that get_project, update_project and list_projects
\* return for a row is the number of stored clicks that reference the row;
\* create_project returns 0.
ClicksOf(rows, project) == {c \in rows : c.project_id = project.id}

C21_TotalClicksIsStoredCount ==
    [][\A r \in Requests :
         /\ (req[r].pc \in {"get_count", "update_count"}
               /\ req'[r].pc = "idle") =>
               /\ response'.op \in {"get_project", "update_project"}
               /\ response'.status = 200
               /\ response'.project.id = req[r].project_id
               /\ response'.total_clicks =
                     Cardinality(ClicksOf(clicks', response'.project))
         /\ (req[r].pc = "list_count" /\ req'[r].pc = "idle") =>
               /\ response'.op = "list_projects"
               /\ Len(response'.result) = Len(req[r].page)
               /\ \A i \in DOMAIN response'.result :
                     response'.result[i].total_clicks =
                         Cardinality(ClicksOf(clicks',
                                              response'.result[i].project))
         /\ (req[r].pc = "create_refresh" /\ req'[r].pc = "idle") =>
               (Created' /\ response'.total_clicks = 0)]_vars

\* get_project reported one click for a row while the table holds a second
\* click, of another row
C21_Witness ==
    /\ response.op = "get_project"
    /\ response.status = 200
    /\ response.total_clicks = 1
    /\ Cardinality(clicks) = 2
    /\ Cardinality(ClicksOf(clicks, response.project)) = 1

\* C22: no two stored users have the same email, also while registrations
\* of one email that both passed the existence check are under way; a
\* registration of an email a stored user has answers 400 'Email already
\* registered' and leaves the users table unchanged, also when the
\* registration that stored the email is not answered yet; the 201 of a
\* registration returns the stored row of its email.
C22_EmailUnique ==
    [][/\ \A u, v \in users' : u.email = v.email => u = v
       /\ \A r \in Requests, email \in Emails :
            (RegisterBegin(r, email) /\ \E u \in users : u.email = email) =>
                /\ response'.status = 400
                /\ response'.detail = "Email already registered"
                /\ users' = users
                /\ req' = req
       /\ \A r \in Requests :
            (req[r].pc = "register_refresh" /\ req'[r].pc = "idle") =>
                /\ response'.status = 201
                /\ response'.user \in users'
                /\ response'.user.email = req[r].email
                /\ users' = users]_vars

\* of two registrations of one email that both passed the existence check
\* the first stored its row and the second was turned down at the insert
C22_Witness ==
    /\ response.op = "register"
    /\ response.status = 500
    /\ Cardinality({u \in users : u.email = response.email}) = 1

====
